---------------------------- MODULE Spec2Model ----------------------------
(***************************************************************************)
(* Model of the OBS discovery backend (src/backend/endpoints.py).          *)
(*                                                                         *)
(* Every request is a task of the asyncio event loop.  A task runs without *)
(* interruption between two suspension points; the model is finer than     *)
(* that (entering the lock, clearing the table and refilling it are        *)
(* separate steps), so every interleaving of the program is a behaviour of *)
(* the model.                                                              *)
(***************************************************************************)
EXTENDS Integers, Sequences, FiniteSets, TLC

(***************************************************************************)
(* Bounds of the model.                                                    *)
(***************************************************************************)
NumLookups == 1       \* GET /discover/{device_id}/objects requests in flight
MaxDevices == 2       \* devices in one scan result

\* Two GET /discover requests, so that censuses can follow one another and
\* overlap; the other tasks are the object-scan requests.
CensusTasks == {1, 2}
LookupTasks == {2 + i : i \in 1..NumLookups}
Tasks == CensusTasks \cup LookupTasks
NoTask == 0

(***************************************************************************)
(* Python values.  Where only handles are stored, None is the string       *)
(* "None".  A value of type Any is a record [t, n, s]: its type, its       *)
(* number (a float in hundredths) and its text, a sequence of characters   *)
(* or of longer pieces ("" is the empty sequence).                         *)
(***************************************************************************)
None == "None"
PyNone == [t |-> "NoneType", n |-> 0, s |-> <<>>]
PyInt(n) == [t |-> "int", n |-> n, s |-> <<>>]
PyFloat(hundredths) == [t |-> "float", n |-> hundredths, s |-> <<>>]
PyBool(b) == [t |-> "bool", n |-> IF b THEN 1 ELSE 0, s |-> <<>>]
PyStr(s) == [t |-> "str", n |-> 0, s |-> s]
PyDict(items) == [t |-> "dict", n |-> 0, s |-> items]

\* Python's truth value of x.
Truthy(x) ==
    CASE x.t = "NoneType" -> FALSE
      [] x.t \in {"int", "float", "bool"} -> x.n # 0
      [] OTHER -> x.s # <<>>

DigitValue ==
    [c \in {"0", "1", "2", "3", "4", "5", "6", "7", "8", "9"} |->
        CASE c = "0" -> 0 [] c = "1" -> 1 [] c = "2" -> 2 [] c = "3" -> 3
          [] c = "4" -> 4 [] c = "5" -> 5 [] c = "6" -> 6 [] c = "7" -> 7
          [] c = "8" -> 8 [] c = "9" -> 9]

RECURSIVE DecimalValue(_, _)
DecimalValue(s, acc) ==
    IF s = <<>> THEN acc
    ELSE DecimalValue(Tail(s), 10 * acc + DigitValue[Head(s)])

\* int(x): [ok, value].  ok = FALSE is the ValueError int() raises.
int(x) ==
    CASE x.t \in {"int", "bool"} -> [ok |-> TRUE, value |-> x.n]
      [] x.t = "float" -> [ok |-> TRUE, value |-> x.n \div 100]
      [] x.t = "str" ->
            IF x.s # <<>> /\ \A i \in 1..Len(x.s) : x.s[i] \in DOMAIN DigitValue
            THEN [ok |-> TRUE, value |-> DecimalValue(x.s, 0)]
            ELSE [ok |-> FALSE, value |-> 0]
      [] OTHER -> [ok |-> FALSE, value |-> 0]

\* float(x): [ok, value] in hundredths.  ok = FALSE is the ValueError or
\* TypeError float() raises.
float(x) ==
    CASE x.t \in {"int", "bool"} -> [ok |-> TRUE, value |-> 100 * x.n]
      [] x.t = "float" -> [ok |-> TRUE, value |-> x.n]
      [] x.t = "str" ->
            IF x.s # <<>> /\ \A i \in 1..Len(x.s) : x.s[i] \in DOMAIN DigitValue
            THEN [ok |-> TRUE, value |-> 100 * DecimalValue(x.s, 0)]
            ELSE [ok |-> FALSE, value |-> 0]
      [] OTHER -> [ok |-> FALSE, value |-> 0]

(***************************************************************************)
(* dict operations.                                                        *)
(***************************************************************************)
EmptyDict == [k \in {} |-> None]
Get(d, k) == IF k \in DOMAIN d THEN d[k] ELSE None
GetOr(d, k, default) == IF k \in DOMAIN d THEN d[k] ELSE default
ListCopy(l) == [i \in 1..Len(l) |-> l[i]]
DictCopy(d) == [k \in DOMAIN d |-> d[k]]
SetDefault(d, k, v) == [x \in DOMAIN d \cup {k} |-> IF x \in DOMAIN d THEN d[x] ELSE v]
SetItem(d, k, v) == [x \in DOMAIN d \cup {k} |-> IF x = k THEN v ELSE d[x]]
Update(d, other) ==
    [x \in DOMAIN d \cup DOMAIN other |-> IF x \in DOMAIN other THEN other[x] ELSE d[x]]
KeepAll(d) == d
Clear(d) == EmptyDict

(***************************************************************************)
(* The devices a scan may report (obs.discovery.types.Device).             *)
(***************************************************************************)
ProtocolRef(address, device_id) ==
    [present |-> TRUE, address |-> address, device_id |-> device_id]
NoProtocolRef == [present |-> FALSE, address |-> "", device_id |-> PyNone]
Device(uid, name, ref, npoints) ==
    [uid |-> uid, name |-> name, manufacturer |-> "ACME",
     protocol_ref |-> ref, points |-> npoints]

Devices ==
    { Device("X", "ahu", ProtocolRef("10.0.0.5", PyStr(<<"5">>)), 3),
      Device("Z", "vav", ProtocolRef("10.0.0.6", PyStr(<<"0", "5">>)), 0),
      Device("Y", "chiller", ProtocolRef("10.0.0.7", PyInt(7)), 1),
      Device("W", "odd", ProtocolRef("10.0.0.8", PyStr(<<"a", "b", "c">>)), 2),
      Device("V", "bare", NoProtocolRef, 0),
      Device("U", "noid", ProtocolRef("10.0.0.9", PyNone), 0) }

\* The lists of at most n different elements of S.
SeqsUpTo(S, n) ==
    {q \in UNION {[1..k -> S] : k \in 0..n} :
        \A i, j \in DOMAIN q : i # j => q[i] # q[j]}

\* What scan_network may return.
ScanResults ==
    {[success |-> TRUE, data |-> d, errors |-> <<>>] : d \in SeqsUpTo(Devices, MaxDevices)}
    \cup {[success |-> FALSE, data |-> <<>>, errors |-> e] : e \in {<<>>, <<"timeout">>}}
NoResult == [success |-> FALSE, data |-> <<>>, errors |-> <<"not scanned">>]

(***************************************************************************)
(* The graph types of obs.graph and their API mirrors.  A value carries    *)
(* its class in cls.                                                       *)
(***************************************************************************)
Node(id, type, tags, attrs) ==
    [cls |-> "Node", id |-> id, type |-> type, tags |-> tags, attrs |-> attrs]
NodeResponse(id, type, tags, attrs) ==
    [cls |-> "NodeResponse", id |-> id, type |-> type, tags |-> tags, attrs |-> attrs]
Edge(source, target, type, attrs) ==
    [cls |-> "Edge", source |-> source, target |-> target, type |-> type,
     attrs |-> attrs]
EdgeResponse(source, target, type, attrs) ==
    [cls |-> "EdgeResponse", source |-> source, target |-> target, type |-> type,
     attrs |-> attrs]
GraphMeta(created_at, source, input, timings, success, errors, error_details, extra) ==
    [cls |-> "GraphMeta", created_at |-> created_at, source |-> source,
     input |-> input, timings |-> timings, success |-> success, errors |-> errors,
     error_details |-> error_details, extra |-> extra]
GraphMetaResponse(created_at, source, input, timings, success, errors, error_details, extra) ==
    [cls |-> "GraphMetaResponse", created_at |-> created_at, source |-> source,
     input |-> input, timings |-> timings, success |-> success, errors |-> errors,
     error_details |-> error_details, extra |-> extra]
Graph(nodes, edges, meta) ==
    [cls |-> "Graph", nodes |-> nodes, edges |-> edges, meta |-> meta]
GraphResponse(nodes, edges, meta) ==
    [cls |-> "GraphResponse", nodes |-> nodes, edges |-> edges, meta |-> meta]
NoGraph == [cls |-> "NoneType", nodes |-> <<>>, edges |-> <<>>, meta |-> None]

from_node(node) == NodeResponse(node.id, node.type, ListCopy(node.tags), DictCopy(node.attrs))
to_node(self) == Node(self.id, self.type, ListCopy(self.tags), DictCopy(self.attrs))

from_edge(edge) == EdgeResponse(edge.source, edge.target, edge.type, DictCopy(edge.attrs))
to_edge_swapped(self) == Edge(self.target, self.source, self.type, DictCopy(self.attrs))
to_edge(self) == Edge(self.source, self.target, self.type, DictCopy(self.attrs))

from_meta(meta) ==
    GraphMetaResponse(meta.created_at, meta.source, DictCopy(meta.input),
                      DictCopy(meta.timings), meta.success, ListCopy(meta.errors),
                      ListCopy(meta.error_details), DictCopy(meta.extra))
to_meta(self) ==
    GraphMeta(self.created_at, self.source, DictCopy(self.input),
              DictCopy(self.timings), self.success, ListCopy(self.errors),
              ListCopy(self.error_details), DictCopy(self.extra))

from_graph(graph) ==
    GraphResponse([i \in 1..Len(graph.nodes) |-> from_node(graph.nodes[i])],
                  [i \in 1..Len(graph.edges) |-> from_edge(graph.edges[i])],
                  from_meta(graph.meta))
to_graph(self) ==
    Graph([i \in 1..Len(self.nodes) |-> to_node(self.nodes[i])],
          [i \in 1..Len(self.edges) |-> to_edge(self.edges[i])],
          to_meta(self.meta))

(***************************************************************************)
(* The graphs the codec is applied to.                                     *)
(***************************************************************************)
MaxNodes == 2
MaxEdges == 2

Attrs(k, v) == [x \in {k} |-> v]
DefaultGraphMeta == GraphMeta("", "", EmptyDict, EmptyDict, TRUE, <<>>, <<>>, EmptyDict)

Nodes ==
    { Node("dev1", "device", <<>>, EmptyDict),
      Node("p1", "point", <<"temp", "air">>,
           SetItem(Attrs("class", PyStr(<<"Sensor">>)), "class_confidence", PyFloat(40))),
      Node("p2", "point", <<"air", "temp">>, Attrs("class", PyStr(<<"Setpoint">>))) }
Edges ==
    { Edge("dev1", "p1", "hasPoint", EmptyDict),
      Edge("p1", "ghost", "feeds", Attrs("weight", PyInt(1))) }
Metas ==
    { DefaultGraphMeta,
      GraphMeta("2024-05-01T00:00:00", "bacnet-object-scan",
                Attrs("timeout", PyInt(60)), Attrs("scan", PyFloat(150)), FALSE,
                <<"second", "first">>, <<Attrs("code", PyInt(42))>>,
                Attrs("future", PyStr(<<"x">>))) }
Graphs ==
    {Graph(n, e, m) : n \in SeqsUpTo(Nodes, MaxNodes), e \in SeqsUpTo(Edges, MaxEdges),
                      m \in Metas}
NoRequest == NoGraph

DeviceIds == {5, 7}      \* the path parameter of GET /discover/{device_id}/objects

VARIABLES
    cache,          \* _last_device_uids_by_id
    lock,           \* _last_census_lock: the task holding it, or NoTask
    pc,             \* where each task stands in its handler
    result,         \* discover_census: result of scan_network
    census,         \* discover_census: census
    uid_map,        \* discover_census: uid_map
    device_id,      \* discover_device_objects: device_id
    uid,            \* discover_device_objects: uid
    response,       \* what each finished request answered
    lastCommit,     \* history: the census task that last entered its replace, the
                    \* table it found, its uid_map and the devices it had scanned
    request,        \* the input of the codec, or the body of a POST /classify
    wire,           \* GraphResponse.from_graph(request)
    decoded,        \* wire.to_graph()
    delegated,      \* what the last such request handed to an external service
    syncResponse    \* what the last classify, enhance or ontology request answered

discoveryVars == <<cache, lock, pc, result, census, uid_map, device_id, uid, response,
                   lastCommit>>
codecVars == <<wire, decoded>>
syncVars == <<delegated, syncResponse>>
vars == <<discoveryVars, request, codecVars, syncVars>>


(***************************************************************************)
(* HTTP status codes.                                                      *)
(***************************************************************************)
HTTP_200_OK == 200
HTTP_400_BAD_REQUEST == 400
HTTP_404_NOT_FOUND == 404
HTTP_422_UNPROCESSABLE_ENTITY == 422
HTTP_500_INTERNAL_SERVER_ERROR == 500
HTTP_502_BAD_GATEWAY == 502

\* A handler's outcome: what it returned, or the exception that left it.
Return(body) == [kind |-> "return", exc |-> "", status |-> HTTP_200_OK, body |-> body]
HTTPException(status_code, detail) ==
    [kind |-> "raise", exc |-> "HTTPException", status |-> status_code, body |-> detail]
\* An exception no handler of the application catches: main.py registers no
\* exception handler, so the framework answers 500 Internal Server Error.
Unhandled(exc) ==
    [kind |-> "raise", exc |-> exc, status |-> HTTP_500_INTERNAL_SERVER_ERROR,
     body |-> <<>>]
NoResponse == [kind |-> "pending", exc |-> "", status |-> 0, body |-> <<>>]
Delegated(service, graph, topology, options) ==
    [service |-> service, graph |-> graph, topology |-> topology, options |-> options]
NotDelegated == Delegated("none", NoGraph, EmptyDict, EmptyDict)

\* "; ".join(errors) or fallback, kept as the list of its parts.
JoinOr(errors, fallback) == IF errors = <<>> THEN <<fallback>> ELSE errors

(***************************************************************************)
(* _device_to_census: [ok, row]; ok = FALSE is the ValueError it raises.   *)
(***************************************************************************)
DeviceCensusEntry(device_address, id, device_name, vendor, object_count, device_uid) ==
    [device_address |-> device_address, device_id |-> id, device_name |-> device_name,
     vendor |-> vendor, object_count |-> object_count, device_uid |-> device_uid]
NoRow == DeviceCensusEntry("", 0, None, None, 0, None)

_device_to_census(device) ==
    LET protocol_ref == device.protocol_ref IN
    IF ~protocol_ref.present \/ protocol_ref.device_id.t = "NoneType"
    THEN [ok |-> FALSE, row |-> NoRow]
    ELSE LET parsed == int(protocol_ref.device_id) IN
         IF ~parsed.ok
         THEN [ok |-> FALSE, row |-> NoRow]
         ELSE [ok |-> TRUE,
               row |-> DeviceCensusEntry(protocol_ref.address, parsed.value,
                                         device.name, device.manufacturer,
                                         device.points, device.uid)]

\* The loop of discover_census over result.data, from device i on:
\* [ok, census, uid_map] as the locals stand when the loop ends or raises.
RECURSIVE CensusLoop(_, _, _, _)
CensusLoop(data, i, cen, map) ==
    IF i > Len(data) THEN [ok |-> TRUE, census |-> cen, uid_map |-> map]
    ELSE LET r == _device_to_census(data[i]) IN
         IF ~r.ok THEN [ok |-> FALSE, census |-> cen, uid_map |-> map]
         ELSE CensusLoop(data, i + 1, Append(cen, r.row),
                         SetItem(map, r.row.device_id, data[i].uid))

(***************************************************************************)
(* Initial state: the module has just been imported.                       *)
(***************************************************************************)
Init ==
    /\ cache = EmptyDict
    /\ lock = NoTask
    /\ pc = [t \in Tasks |-> "idle"]
    /\ result = [t \in CensusTasks |-> NoResult]
    /\ census = [t \in CensusTasks |-> <<>>]
    /\ uid_map = [t \in CensusTasks |-> EmptyDict]
    /\ device_id = [t \in LookupTasks |-> 0]
    /\ uid = [t \in LookupTasks |-> None]
    /\ response = [t \in Tasks |-> NoResponse]
    /\ lastCommit = [task |-> NoTask, previous |-> EmptyDict, mapping |-> EmptyDict,
                     data |-> <<>>]
    /\ request = NoRequest
    /\ wire = NoGraph
    /\ decoded = NoGraph
    /\ delegated = NotDelegated
    /\ syncResponse = NoResponse

(***************************************************************************)
(* discover_census                                                         *)
(***************************************************************************)
\* The request arrives; the handler runs to `await scan_network(...)`.
CensusStart(t) ==
    /\ pc[t] = "idle"
    /\ pc' = [pc EXCEPT ![t] = "scan_network"]
    /\ census' = [census EXCEPT ![t] = <<>>]
    /\ uid_map' = [uid_map EXCEPT ![t] = EmptyDict]
    /\ UNCHANGED <<cache, lock, result, device_id, uid, response, lastCommit>>
    /\ UNCHANGED <<request, codecVars, syncVars>>

\* As ScanReturn, but storing each device in the table as the loop meets it.
ScanReturnEager(t, r) ==
    /\ pc[t] = "scan_network"
    /\ r.success
    /\ LET loop == CensusLoop(r.data, 1, census[t], uid_map[t]) IN
       /\ cache' = Update(cache, loop.uid_map)
       /\ IF loop.ok
          THEN /\ result' = [result EXCEPT ![t] = r]
               /\ census' = [census EXCEPT ![t] = loop.census]
               /\ uid_map' = [uid_map EXCEPT ![t] = loop.uid_map]
               /\ pc' = [pc EXCEPT ![t] = "acquire"]
               /\ UNCHANGED response
          ELSE /\ pc' = [pc EXCEPT ![t] = "done"]
               /\ response' = [response EXCEPT ![t] = Unhandled("ValueError")]
               /\ UNCHANGED <<result, census, uid_map>>
    /\ UNCHANGED <<lock, device_id, uid, lastCommit>>
    /\ UNCHANGED <<request, codecVars, syncVars>>

\* scan_network returns r; the handler runs to `async with _last_census_lock`.
ScanReturn(t, r) ==
    /\ pc[t] = "scan_network"
    /\ IF ~r.success
       THEN /\ response' = [response EXCEPT ![t] =
                   HTTPException(HTTP_500_INTERNAL_SERVER_ERROR,
                       <<"Network scan failed">> \o
                       JoinOr(r.errors, "Unknown BACnet scan failure"))]
            /\ pc' = [pc EXCEPT ![t] = "done"]
            /\ UNCHANGED <<result, census, uid_map>>
       ELSE LET loop == CensusLoop(r.data, 1, census[t], uid_map[t]) IN
            IF loop.ok
            THEN /\ result' = [result EXCEPT ![t] = r]
                 /\ census' = [census EXCEPT ![t] = loop.census]
                 /\ uid_map' = [uid_map EXCEPT ![t] = loop.uid_map]
                 /\ pc' = [pc EXCEPT ![t] = "acquire"]
                 /\ UNCHANGED response
            ELSE /\ pc' = [pc EXCEPT ![t] = "done"]
                 /\ response' = [response EXCEPT ![t] = Unhandled("ValueError")]
                 /\ UNCHANGED <<result, census, uid_map>>
    /\ UNCHANGED <<cache, lock, device_id, uid, lastCommit>>
    /\ UNCHANGED <<request, codecVars, syncVars>>

\* As CensusAcquire, but entering without waiting for the lock.
CensusAcquireUnlocked(t) ==
    /\ pc[t] = "acquire"
    /\ lock' = t
    /\ lastCommit' = [task |-> t, previous |-> cache, mapping |-> uid_map[t],
                      data |-> result[t].data]
    /\ pc' = [pc EXCEPT ![t] = "clear"]
    /\ UNCHANGED <<cache, result, census, uid_map, device_id, uid, response>>
    /\ UNCHANGED <<request, codecVars, syncVars>>

\* `async with _last_census_lock:` entered.
CensusAcquire(t) ==
    /\ pc[t] = "acquire"
    /\ lock = NoTask
    /\ lock' = t
    /\ lastCommit' = [task |-> t, previous |-> cache, mapping |-> uid_map[t],
                      data |-> result[t].data]
    /\ pc' = [pc EXCEPT ![t] = "clear"]
    /\ UNCHANGED <<cache, result, census, uid_map, device_id, uid, response>>
    /\ UNCHANGED <<request, codecVars, syncVars>>

\* _last_device_uids_by_id.clear()
CensusClear(t) ==
    /\ pc[t] = "clear"
    /\ cache' = Clear(cache)
    /\ pc' = [pc EXCEPT ![t] = "update"]
    /\ UNCHANGED <<lock, result, census, uid_map, device_id, uid, response, lastCommit>>
    /\ UNCHANGED <<request, codecVars, syncVars>>

\* _last_device_uids_by_id.update(uid_map); the with block is left and the
\* census returned (the handler's locals end with it).
CensusUpdate(t) ==
    /\ pc[t] = "update"
    /\ cache' = Update(cache, uid_map[t])
    /\ lock' = NoTask
    /\ response' = [response EXCEPT ![t] = Return(census[t])]
    /\ pc' = [pc EXCEPT ![t] = "done"]
    /\ result' = [result EXCEPT ![t] = NoResult]
    /\ census' = [census EXCEPT ![t] = <<>>]
    /\ uid_map' = [uid_map EXCEPT ![t] = EmptyDict]
    /\ UNCHANGED <<device_id, uid, lastCommit>>
    /\ UNCHANGED <<request, codecVars, syncVars>>

(***************************************************************************)
(* discover_device_objects                                                 *)
(***************************************************************************)
\* What discover_objects may return for the handle; graph is what
\* objects_result_to_graph makes of it.
ObjectResults(handle) ==
    {[success |-> TRUE, errors |-> <<>>,
      graph |-> Graph(<<Node(handle, "device", <<>>, EmptyDict)>>, <<>>,
                      GraphMeta("", "bacnet-object-scan", EmptyDict, EmptyDict, TRUE,
                                <<>>, <<>>, EmptyDict))],
     [success |-> FALSE, errors |-> <<>>, graph |-> NoGraph],
     [success |-> FALSE, errors |-> <<"no route">>, graph |-> NoGraph]}

\* The request arrives with its path parameter.
LookupStart(t, id) ==
    /\ pc[t] = "idle"
    /\ device_id' = [device_id EXCEPT ![t] = id]
    /\ pc' = [pc EXCEPT ![t] = "acquire"]
    /\ UNCHANGED <<cache, lock, result, census, uid_map, uid, response, lastCommit>>
    /\ UNCHANGED <<request, codecVars, syncVars>>

\* As LookupAcquire, but reading without waiting for the lock.
LookupAcquireUnlocked(t) ==
    /\ pc[t] = "acquire"
    /\ pc' = [pc EXCEPT ![t] = "get"]
    /\ UNCHANGED <<cache, lock, result, census, uid_map, device_id, uid, response,
                   lastCommit>>
    /\ UNCHANGED <<request, codecVars, syncVars>>

\* `async with _last_census_lock:` entered.
LookupAcquire(t) ==
    /\ pc[t] = "acquire"
    /\ lock = NoTask
    /\ lock' = t
    /\ pc' = [pc EXCEPT ![t] = "get"]
    /\ UNCHANGED <<cache, result, census, uid_map, device_id, uid, response, lastCommit>>
    /\ UNCHANGED <<request, codecVars, syncVars>>

\* As LookupGet, but without the check for None.
LookupGetUnchecked(t) ==
    /\ pc[t] = "get"
    /\ lock' = NoTask
    /\ uid' = [uid EXCEPT ![t] = Get(cache, device_id[t])]
    /\ pc' = [pc EXCEPT ![t] = "discover_objects"]
    /\ UNCHANGED <<cache, result, census, uid_map, device_id, response, lastCommit>>
    /\ UNCHANGED <<request, codecVars, syncVars>>

\* As LookupGet, but awaiting discover_objects inside the with block.
LookupGetHolding(t) ==
    LET found == Get(cache, device_id[t]) IN
    /\ pc[t] = "get"
    /\ IF found = None
       THEN /\ response' = [response EXCEPT ![t] =
                   HTTPException(HTTP_404_NOT_FOUND, <<"not found in last census">>)]
            /\ pc' = [pc EXCEPT ![t] = "done"]
            /\ lock' = NoTask
            /\ UNCHANGED uid
       ELSE /\ uid' = [uid EXCEPT ![t] = found]
            /\ pc' = [pc EXCEPT ![t] = "discover_objects"]
            /\ UNCHANGED <<response, lock>>
    /\ UNCHANGED <<cache, result, census, uid_map, device_id, lastCommit>>
    /\ UNCHANGED <<request, codecVars, syncVars>>

\* uid = _last_device_uids_by_id.get(device_id); the with block is left;
\* 404 when uid is None, else `await discover_objects(uid, ...)`.
LookupGet(t) ==
    LET found == Get(cache, device_id[t]) IN
    /\ pc[t] = "get"
    /\ lock' = NoTask
    /\ IF found = None
       THEN /\ response' = [response EXCEPT ![t] =
                   HTTPException(HTTP_404_NOT_FOUND, <<"not found in last census">>)]
            /\ pc' = [pc EXCEPT ![t] = "done"]
            /\ UNCHANGED uid
       ELSE /\ uid' = [uid EXCEPT ![t] = found]
            /\ pc' = [pc EXCEPT ![t] = "discover_objects"]
            /\ UNCHANGED response
    /\ UNCHANGED <<cache, result, census, uid_map, device_id, lastCommit>>
    /\ UNCHANGED <<request, codecVars, syncVars>>

\* discover_objects returns r.
ObjectsReturn(t, r) ==
    /\ pc[t] = "discover_objects"
    /\ response' = [response EXCEPT ![t] =
           IF ~r.success
           THEN HTTPException(HTTP_500_INTERNAL_SERVER_ERROR,
                    <<"Failed to scan device">> \o
                    JoinOr(r.errors, "Unknown BACnet object discovery failure"))
           ELSE Return(from_graph(r.graph))]
    /\ pc' = [pc EXCEPT ![t] = "done"]
    /\ UNCHANGED <<cache, lock, result, census, uid_map, device_id, uid, lastCommit>>
    /\ UNCHANGED <<request, codecVars, syncVars>>

Next ==
    \/ \E t \in CensusTasks : CensusStart(t)
    \/ \E t \in CensusTasks, r \in ScanResults : ScanReturn(t, r)
    \/ \E t \in CensusTasks : CensusAcquire(t)
    \/ \E t \in CensusTasks : CensusClear(t)
    \/ \E t \in CensusTasks : CensusUpdate(t)
    \/ \E t \in LookupTasks, id \in DeviceIds : LookupStart(t, id)
    \/ \E t \in LookupTasks : LookupAcquire(t)
    \/ \E t \in LookupTasks : LookupGet(t)
    \/ \E t \in LookupTasks : \E r \in ObjectResults(uid[t]) : ObjectsReturn(t, r)

Spec == Init /\ [][Next]_vars

(***************************************************************************)
(* The codec on its own: a graph is encoded, and the encoding decoded.     *)
(***************************************************************************)
InitCodec ==
    /\ Init!1 /\ Init!2 /\ Init!3 /\ Init!4 /\ Init!5 /\ Init!6 /\ Init!7
    /\ Init!8 /\ Init!9 /\ Init!10
    /\ request \in Graphs
    /\ wire = NoGraph
    /\ decoded = NoGraph
    /\ delegated = NotDelegated
    /\ syncResponse = NoResponse

Encode ==
    /\ wire = NoGraph
    /\ wire' = from_graph(request)
    /\ UNCHANGED <<discoveryVars, request, decoded, syncVars>>

Decode ==
    /\ wire # NoGraph
    /\ decoded = NoGraph
    /\ decoded' = to_graph(wire)
    /\ UNCHANGED <<discoveryVars, request, wire, syncVars>>

NextCodec == Encode \/ Decode

SpecCodec == InitCodec /\ [][NextCodec]_vars

(***************************************************************************)
(* The Ontology Registry.                                                  *)
(***************************************************************************)
OntologyInfo(id, name, version, url) ==
    [id |-> id, name |-> name, version |-> version, url |-> url]
_ONTOLOGIES ==
    [k \in {<<"brick_v1.4.4">>} |->
        OntologyInfo(PyStr(<<"brick_v1.4.4">>), PyStr(<<"Brick">>), PyStr(<<"1.4.4">>),
                     PyStr(<<"https://brickschema.org/schema/1.4.4/Brick.jsonld">>))]

(***************************************************************************)
(* POST /classify                                                          *)
(***************************************************************************)
DefaultMinConfidence == 50      \* 0.5, in hundredths

PyGet(d, k) == GetOr(d, k, PyNone)

\* As ResolveTopology, but not looking at the caller's url.
ResolveTopologyAlways(topology_payload) ==
    LET topology_id == PyGet(topology_payload, "id") IN
    IF topology_id.t = "str" /\ topology_id.s \in DOMAIN _ONTOLOGIES
    THEN SetItem(topology_payload, "url", _ONTOLOGIES[topology_id.s].url)
    ELSE topology_payload

\* topology_payload after the registry has filled in a missing url.
ResolveTopology(topology_payload) ==
    LET topology_id == PyGet(topology_payload, "id") IN
    IF /\ topology_id.t = "str"
       /\ ~Truthy(PyGet(topology_payload, "url"))
       /\ ~Truthy(PyGet(topology_payload, "content"))
    THEN IF topology_id.s \in DOMAIN _ONTOLOGIES /\ Truthy(_ONTOLOGIES[topology_id.s].url)
         THEN SetItem(topology_payload, "url", _ONTOLOGIES[topology_id.s].url)
         ELSE topology_payload
    ELSE topology_payload

ClassifierTopologyInput(id, url, content, format) ==
    [id |-> id, url |-> url, content |-> content, format |-> format]

ClassifierOptions(min_confidence, use_llm, metadata) ==
    [min_confidence |-> min_confidence, use_llm |-> use_llm, metadata |-> metadata]

\* What classify_graph_sync may answer for graph.
ClassifyResults(graph) ==
    {[success |-> TRUE, graph |-> graph, errors |-> <<>>],
     [success |-> FALSE, graph |-> graph, errors |-> <<>>],
     [success |-> FALSE, graph |-> graph, errors |-> <<"no such class", "later">>]}
SomeClassifyResults(graph) ==
    {r \in ClassifyResults(graph) : r.success \/ r.errors # <<>>}

\* The handler, on body, with r what classify_graph_sync answers.
classify_graph_endpoint(body, r) ==
    LET graph_input == to_graph(body.graph)
        topology_payload == ResolveTopology(DictCopy(body.topology))
        topology == ClassifierTopologyInput(PyGet(topology_payload, "id"),
                                            PyGet(topology_payload, "url"),
                                            PyGet(topology_payload, "content"),
                                            PyGet(topology_payload, "format"))
        min_confidence ==
            float(GetOr(body.options, "min_confidence", PyFloat(DefaultMinConfidence)))
        metadata == PyGet(body.options, "metadata")
        options == ClassifierOptions(
                       min_confidence.value,
                       Truthy(GetOr(body.options, "use_llm", PyBool(FALSE))),
                       IF metadata.t = "dict" THEN metadata ELSE PyDict(<<>>))
    IN
    IF ~min_confidence.ok
    THEN /\ syncResponse' = HTTPException(HTTP_400_BAD_REQUEST,
                                <<"Invalid classify request">>)
         /\ delegated' = NotDelegated
    ELSE /\ delegated' = Delegated("classify_graph_sync", graph_input, topology, options)
         /\ syncResponse' =
               IF ~r.success
               THEN HTTPException(HTTP_422_UNPROCESSABLE_ENTITY,
                        IF r.errors # <<>> THEN <<r.errors[1]>>
                        ELSE <<"Classification failed">>)
               ELSE Return([graph |-> from_graph(r.graph)])

ClassifyRequest(graph, topology, options) ==
    [graph |-> graph, topology |-> topology, options |-> options]

(***************************************************************************)
(* POST /enhance                                                           *)
(***************************************************************************)
DefaultThreshold == 70          \* 0.7, in hundredths
DefaultBatchSize == 10

LLMOptions(backend, model, base_url, min_confidence_threshold, batch_size, force) ==
    [backend |-> backend, model |-> model, base_url |-> base_url,
     min_confidence_threshold |-> min_confidence_threshold,
     batch_size |-> batch_size, force |-> force]

\* What enhance_graph_sync may answer for graph.
EnhanceResults(graph) ==
    {[success |-> TRUE, graph |-> graph, errors |-> <<>>, enhancements |-> <<>>,
      metadata |-> EmptyDict],
     [success |-> FALSE, graph |-> graph, errors |-> <<"backend down">>,
      enhancements |-> <<>>, metadata |-> Attrs("nodes_evaluated", 1)]}
SomeEnhanceResults(graph) == {r \in EnhanceResults(graph) : r.success}

\* The handler, on body, with r what enhance_graph_sync answers.
enhance_graph_endpoint(body, r) ==
    LET graph_input == to_graph(body.graph)
        opts_dict == DictCopy(body.options)
        threshold ==
            float(GetOr(opts_dict, "min_confidence_threshold", PyFloat(DefaultThreshold)))
        batch_size == int(GetOr(opts_dict, "batch_size", PyInt(DefaultBatchSize)))
        llm_options ==
            LLMOptions(GetOr(opts_dict, "backend", PyStr(<<"transformers">>)),
                       GetOr(opts_dict, "model",
                             PyStr(<<"HuggingFaceTB/SmolLM2-1.7B-Instruct">>)),
                       GetOr(opts_dict, "base_url", PyStr(<<"http://localhost:11434/v1">>)),
                       threshold.value, batch_size.value,
                       Truthy(GetOr(opts_dict, "force", PyBool(FALSE))))
        nodes_with_class ==
            {i \in 1..Len(graph_input.nodes) : "class" \in DOMAIN graph_input.nodes[i].attrs}
        \* `<` between a str and a float raises TypeError
        comparable ==
            \A i \in nodes_with_class :
                GetOr(graph_input.nodes[i].attrs, "class_confidence", PyFloat(0)).t
                    \in {"int", "float", "bool"}
    IN
    IF ~threshold.ok \/ ~batch_size.ok \/ ~comparable
    THEN /\ syncResponse' = HTTPException(HTTP_400_BAD_REQUEST,
                                <<"Invalid enhance request">>)
         /\ delegated' = NotDelegated
    ELSE /\ delegated' = Delegated("enhance_graph_sync", graph_input, EmptyDict, llm_options)
         /\ syncResponse' =
               Return([graph |-> from_graph(r.graph),
                       enhancements |-> ListCopy(r.enhancements),
                       success |-> r.success,
                       errors |-> r.errors,
                       nodes_evaluated |-> GetOr(r.metadata, "nodes_evaluated", 0),
                       nodes_enhanced |-> GetOr(r.metadata, "nodes_enhanced", 0)])

EnhanceRequest(graph, options) == [graph |-> graph, options |-> options]

(***************************************************************************)
(* GET /ontologies and GET /ontologies/{ontology_id}                       *)
(***************************************************************************)
list_ontologies ==
    /\ syncResponse' = Return({_ONTOLOGIES[k] : k \in DOMAIN _ONTOLOGIES})
    /\ delegated' = NotDelegated

\* What urlopen(url).read() and the two decoders may do.
FetchResults == {"OSError", "json", "yaml", "YAMLError"}
SomeFetchResults == FetchResults \ {"json", "YAMLError"}

\* The handler, on ontology_id, with r what the fetch and the decoders do.
get_ontology(ontology_id, r) ==
    IF ontology_id \notin DOMAIN _ONTOLOGIES
    THEN /\ syncResponse' = HTTPException(HTTP_404_NOT_FOUND, <<"not found">>)
         /\ delegated' = NotDelegated
    ELSE IF ~Truthy(_ONTOLOGIES[ontology_id].url)
    THEN /\ syncResponse' = HTTPException(HTTP_404_NOT_FOUND, <<"does not define a URL">>)
         /\ delegated' = NotDelegated
    ELSE /\ delegated' = Delegated("urlopen", NoGraph,
                                   Attrs("url", _ONTOLOGIES[ontology_id].url), EmptyDict)
         /\ syncResponse' =
               IF r \in {"OSError", "YAMLError"}
               THEN HTTPException(HTTP_502_BAD_GATEWAY, <<"Failed to fetch ontology", r>>)
               ELSE Return(<<"payload decoded as", r>>)

(***************************************************************************)
(* The whole application: the discovery requests and the other handlers.   *)
(***************************************************************************)
SomeGraphResponse ==
    from_graph(Graph(<<Node("p1", "point", <<"temp">>, Attrs("class", PyStr(<<"Sensor">>)))>>,
                     <<>>, DefaultGraphMeta))
SomeClassifyRequests ==
    {ClassifyRequest(SomeGraphResponse, Attrs("id", PyStr(<<"brick_v1.4.4">>)), EmptyDict)}
SomeEnhanceRequests ==
    {EnhanceRequest(SomeGraphResponse, o) : o \in {EmptyDict, Attrs("batch_size", PyNone)}}

Classify ==
    /\ \E body \in SomeClassifyRequests :
          \E r \in SomeClassifyResults(to_graph(body.graph)) :
              classify_graph_endpoint(body, r)
    /\ UNCHANGED <<discoveryVars, request, codecVars>>

Enhance ==
    /\ \E body \in SomeEnhanceRequests :
          \E r \in SomeEnhanceResults(to_graph(body.graph)) :
              enhance_graph_endpoint(body, r)
    /\ UNCHANGED <<discoveryVars, request, codecVars>>

ListOntologies ==
    /\ list_ontologies
    /\ UNCHANGED <<discoveryVars, request, codecVars>>

GetOntology ==
    /\ \E ontology_id \in {<<"brick_v1.4.4">>, <<"haystack">>}, r \in SomeFetchResults :
          get_ontology(ontology_id, r)
    /\ UNCHANGED <<discoveryVars, request, codecVars>>

NextAll == Next \/ Classify \/ Enhance \/ ListOntologies \/ GetOntology

SpecAll == Init /\ [][NextAll]_vars

(***************************************************************************)
(* POST /classify on its own, over every shape of topology reference.      *)
(***************************************************************************)
TopologyValues ==
    [id |-> {PyStr(<<"brick_v1.4.4">>), PyStr(<<"custom">>), PyInt(5)},
     url |-> {PyNone, PyStr(<<>>), PyStr(<<"https://caller.example/own.ttl">>)},
     content |-> {PyStr(<<>>), PyStr(<<"@prefix brick:">>)},
     format |-> {PyStr(<<"turtle">>)}]

\* The dicts with some of the keys, each with one of its values.
Topologies ==
    UNION {{d \in [keys -> UNION {TopologyValues[k] : k \in keys}] :
               \A k \in keys : d[k] \in TopologyValues[k]} :
           keys \in SUBSET {"id", "url", "content", "format"}}

ClassifyRequests ==
    {ClassifyRequest(from_graph(Graph(<<>>, <<>>, DefaultGraphMeta)), tp, o) :
        tp \in Topologies,
        o \in {EmptyDict, Attrs("min_confidence", PyStr(<<"a", "b">>))}}

InitClassify ==
    /\ Init!1 /\ Init!2 /\ Init!3 /\ Init!4 /\ Init!5 /\ Init!6 /\ Init!7
    /\ Init!8 /\ Init!9 /\ Init!10
    /\ request \in ClassifyRequests
    /\ wire = NoGraph
    /\ decoded = NoGraph
    /\ delegated = NotDelegated
    /\ syncResponse = NoResponse

ClassifyRequested ==
    /\ syncResponse = NoResponse
    /\ \E r \in ClassifyResults(to_graph(request.graph)) :
          classify_graph_endpoint(request, r)
    /\ UNCHANGED <<discoveryVars, request, codecVars>>

NextClassify == ClassifyRequested

SpecClassify == InitClassify /\ [][NextClassify]_vars

(***************************************************************************)
(* The properties.                                                         *)
(***************************************************************************)
\* The handles the scanned devices carry under integer id.
HandlesOf(data, id) ==
    {data[i].uid : i \in {j \in DOMAIN data : int(data[j].protocol_ref.device_id).value = id}}

ReturnedCensus(c) == pc[c] = "done" /\ response[c].kind = "return"
NoCensusCommitted == \A c \in CensusTasks : ~ReturnedCensus(c)
NotFoundResponse(r) ==
    r.kind = "raise" /\ r.exc = "HTTPException" /\ r.status = HTTP_404_NOT_FOUND

\* C1: whenever a lookup is inside its locked section, about to read the
\* table, the table is a complete mapping: the one the last replace found or
\* the one it installed, never the cleared table or a mix of the two.
C1_LookupSeesCompleteMapping ==
    \A t \in LookupTasks :
        pc[t] = "get" => cache \in {lastCommit.previous, lastCommit.mapping}

\* A lookup reads while a census with another, non-empty mapping waits for
\* the lock to replace a non-empty table.
C1_Witness ==
    \E t \in LookupTasks, c \in CensusTasks :
        /\ pc[t] = "get" /\ lock = t
        /\ pc[c] = "acquire"
        /\ cache # EmptyDict /\ uid_map[c] # EmptyDict
        /\ DOMAIN uid_map[c] # DOMAIN cache

\* C2: a lookup that reads after a census has committed the scan of devices
\* `data` answers by that scan alone: an id no scanned device carries is
\* not found (404), and an id carried by devices of one handle resolves to
\* that handle, whatever earlier censuses stored.
C2_WholesaleReplace ==
    [][\A t \in LookupTasks :
          (pc[t] = "get" /\ pc'[t] # "get" /\ lastCommit.task # NoTask) =>
              LET handles == HandlesOf(lastCommit.data, device_id[t]) IN
              /\ handles = {} => pc'[t] = "done" /\ NotFoundResponse(response'[t])
              /\ \A h \in handles :
                    handles = {h} => pc'[t] = "discover_objects" /\ uid'[t] = h]_vars

\* After census {5 -> X} and then census {7 -> Y}, lookup(5) was not found.
C2_Witness ==
    \E t \in LookupTasks :
        /\ \A c \in CensusTasks : ReturnedCensus(c)
        /\ \E c \in CensusTasks : \E i \in DOMAIN response[c].body :
              response[c].body[i].device_id = 5
        /\ lastCommit.mapping = [k \in {7} |-> "Y"]
        /\ lastCommit.previous = [k \in {5} |-> "X"]
        /\ device_id[t] = 5 /\ pc[t] = "done" /\ NotFoundResponse(response[t])
        /\ cache = [k \in {7} |-> "Y"]

\* C3: a lookup that reads before any census has committed answers 404,
\* whatever its device id and whatever censuses have failed before.
C3_NotFoundBeforeCensus ==
    [][\A t \in LookupTasks :
          (pc[t] = "get" /\ pc'[t] # "get" /\ NoCensusCommitted) =>
              pc'[t] = "done" /\ NotFoundResponse(response'[t])]_vars

\* A lookup answered 404 while every census so far has failed.
C3_Witness ==
    \E t \in LookupTasks :
        /\ pc[t] = "done" /\ NotFoundResponse(response[t])
        /\ \A c \in CensusTasks : pc[c] = "done" /\ response[c].kind = "raise"
        /\ \E c \in CensusTasks : response[c].exc = "ValueError"
        /\ \E c \in CensusTasks : response[c].exc = "HTTPException"

\* C4: the table changes only in a step of the replace of a census task that
\* holds the lock, whose scan succeeded and whose every device gave a census
\* row; every other step of any handler leaves it as it is.
C4_OnlyCommitWrites ==
    [][cache' # cache =>
          \E c \in CensusTasks :
              /\ lock = c /\ pc[c] \in {"clear", "update"} /\ pc'[c] # pc[c]
              /\ result[c].success
              /\ \A i \in DOMAIN result[c].data : _device_to_census(result[c].data[i]).ok]_vars

\* A non-empty table stands while one census has failed on a bad device, a
\* lookup has failed after its object scan and another handler has answered.
C4_Witness ==
    /\ cache # EmptyDict /\ lock = NoTask
    /\ \E c \in CensusTasks : pc[c] = "done" /\ response[c].exc = "ValueError"
    /\ \E t \in LookupTasks :
          pc[t] = "done" /\ response[t].status = HTTP_500_INTERNAL_SERVER_ERROR
    /\ syncResponse.kind = "raise"

\* C5: a census whose successful scan holds a device without an integer id
\* fails as a whole with the validation status 400, and returns no entries.
HasBadDevice(r) == \E i \in DOMAIN r.data : ~_device_to_census(r.data[i]).ok
C5_ValidationFailure ==
    [][\A c \in CensusTasks : \A r \in ScanResults :
          (r.success /\ HasBadDevice(r) /\ ScanReturn(c, r)) =>
              /\ pc'[c] = "done" /\ response'[c].kind = "raise"
              /\ response'[c].status = HTTP_400_BAD_REQUEST]_vars

\* C6: no task awaits an external call while it holds the lock; the lock is
\* held only inside the replace and the lookup.
C6_NoLockAcrossNetwork ==
    /\ \A t \in Tasks : pc[t] \in {"scan_network", "discover_objects"} => lock # t
    /\ lock # NoTask => pc[lock] \in {"clear", "update", "get"}

\* A census that has scanned replaces the table, holding the lock, while a
\* lookup that has left the lock awaits its object scan.
C6_Witness ==
    \E c \in CensusTasks, t \in LookupTasks :
        /\ pc[t] = "discover_objects"
        /\ pc[c] = "update" /\ lock = c

\* C7: decoding the encoding of a graph gives the graph back, field for
\* field and in the same order, whether or not its edges name nodes it has.
C7_RoundTrip == decoded # NoGraph => decoded = request

\* A graph of two tagged nodes, an edge to a node it lacks, the default
\* metadata, a node without tags or attrs, decoded.
C7_Witness ==
    /\ decoded # NoGraph
    /\ request.meta = DefaultGraphMeta
    /\ Len(request.nodes) = 2 /\ Len(request.edges) = 2
    /\ \E i \in DOMAIN request.nodes :
          request.nodes[i].tags = <<>> /\ request.nodes[i].attrs = EmptyDict
    /\ \E i \in DOMAIN request.edges :
          \A j \in DOMAIN request.nodes : request.edges[i].target # request.nodes[j].id

KnownId(topology) ==
    "id" \in DOMAIN topology /\ topology["id"].t = "str"
    /\ topology["id"].s \in DOMAIN _ONTOLOGIES
RegistryUrl(topology) == _ONTOLOGIES[topology["id"].s].url
SameTopology(given, handed) ==
    \A k \in {"id", "url", "content", "format"} : handed[k] = PyGet(given, k)
Classified == delegated.service = "classify_graph_sync"

\* C8 as stated: a known id without url and content is handed on with the
\* registry's url; a url the caller gave, whatever string it is, is handed
\* on as it is; an unknown id leaves the topology as it is.
C8_ExplicitUrlAnyValue ==
    Classified =>
        LET given == request.topology
            handed == delegated.topology IN
        /\ (KnownId(given) /\ "url" \notin DOMAIN given /\ "content" \notin DOMAIN given)
              => handed.url = RegistryUrl(given)
        /\ ("url" \in DOMAIN given /\ given["url"].t = "str") => handed.url = given["url"]
        /\ ~KnownId(given) => SameTopology(given, handed)

\* C8, amended: a known id with no url and no content, or only empty ones,
\* is handed on with the registry's url; a non-empty url the caller gave is
\* handed on as it is; an unknown id leaves the topology as it is.
C8_NonEmptyUrlKept ==
    Classified =>
        LET given == request.topology
            handed == delegated.topology IN
        /\ (/\ KnownId(given)
            /\ ~Truthy(PyGet(given, "url"))
            /\ ~Truthy(PyGet(given, "content")))
              => handed.url = RegistryUrl(given)
        /\ Truthy(PyGet(given, "url")) => SameTopology(given, handed)
        /\ ~KnownId(given) => SameTopology(given, handed)

\* A known id came with the caller's own url and that url was handed on.
C8_Witness ==
    /\ Classified
    /\ KnownId(request.topology)
    /\ "content" \notin DOMAIN request.topology
    /\ Truthy(PyGet(request.topology, "url"))
    /\ delegated.topology.url = request.topology["url"]
    /\ delegated.topology.url # RegistryUrl(request.topology)

\* The census c returned is the one the table holds.
Current(c) == ReturnedCensus(c) /\ lastCommit.task = c /\ lock \notin CensusTasks

\* C9 as stated: every entry of the census last returned resolves to its
\* own handle, also when two of its entries carry one device_id.
C9_EveryEntryResolves ==
    \A c \in CensusTasks :
        Current(c) =>
            \A i \in DOMAIN response[c].body :
                Get(cache, response[c].body[i].device_id) = response[c].body[i].device_uid

\* C9, amended: every entry of the census last returned whose device_id no
\* later entry of that census carries resolves to its own handle; a
\* device_id several entries carry resolves to the handle of the last.
C9_LastEntryResolves ==
    \A c \in CensusTasks :
        Current(c) =>
            LET L == response[c].body IN
            \A i \in DOMAIN L :
                (\A j \in DOMAIN L : j > i => L[j].device_id # L[i].device_id)
                    => Get(cache, L[i].device_id) = L[i].device_uid

\* The census last returned holds two entries of one device_id.
C9_Witness ==
    \E c \in CensusTasks :
        /\ Current(c)
        /\ Len(response[c].body) = 2
        /\ response[c].body[1].device_id = response[c].body[2].device_id
        /\ response[c].body[1].device_uid # response[c].body[2].device_uid

\* C10: outside the replace the table is the complete mapping of the census
\* that last entered its replace (the empty one before any), never a union
\* or a mix of two censuses' mappings.
C10_OneCensusMapping == lock \notin CensusTasks => cache = lastCommit.mapping

\* Two censuses overlapped: one has replaced the table and returned while
\* the other, scanned with a different mapping, still waits to replace it.
C10_Witness ==
    \E c, d \in CensusTasks :
        /\ lock = NoTask
        /\ ReturnedCensus(c) /\ lastCommit.task = c /\ cache # EmptyDict
        /\ pc[d] = "acquire" /\ uid_map[d] # EmptyDict
        /\ \E k \in DOMAIN uid_map[d] : k \notin DOMAIN cache
        /\ \E k \in DOMAIN cache : k \notin DOMAIN uid_map[d]

=============================================================================
